---------------------------- MODULE Spec2Model ----------------------------
(***************************************************************************)
(* Model of transcriber.py: the subtitle parser, the caption cleaner, the  *)
(* paragraph segmenter (heuristic and assistant-backed), the summarizer,   *)
(* the Markdown formatter, the console spinner and the transcribe          *)
(* pipeline.                                                                *)
(*                                                                         *)
(* A Python str is a sequence of one-character strings, so that strip,     *)
(* split, join and the regular expressions of the source are computed      *)
(* character by character.                                                *)
(***************************************************************************)
EXTENDS Integers, Sequences, FiniteSets, TLC

VARIABLES
    pc,               \* position of the running operation
    content,          \* subtitle_content: the track text read from the file
    keep_labels,      \* YouTubeTranscriber.keep_labels
    cues,             \* the cues the track text was written from (input description)
    captions,         \* list returned by SubtitleParser.parse
    use_ai,           \* YouTubeTranscriber.use_ai
    ollama_available, \* AIProcessor.ollama_available
    video_title,      \* title returned by download_captions
    cleaned_captions, \* list returned by the dedup step
    stack,            \* call stack of detect_paragraph_breaks / _chunked_paragraph_detection
    retval,           \* value returned by the frame popped last
    paragraphs,       \* paragraph list handed to the formatter
    summary,          \* executive summary
    markdown,         \* string returned by MarkdownFormatter.format
    written,          \* what transcribe wrote to the output file (None: nothing)
    outcome,          \* "running", "returned", or the failure transcribe raised
    spinners,         \* every Spinner object created, in creation order
    calls,            \* every ollama.generate call made, in call order
    resegmented       \* heuristic segmentation re-run on its own output

vars == <<pc, content, keep_labels, cues, captions, use_ai, ollama_available,
          video_title, cleaned_captions, stack, retval, paragraphs, summary,
          markdown, written, outcome, spinners, calls, resegmented>>

\* Python's None where a str is expected: a value no str equals
None == <<"None">>

\* Python's None where a dict is expected; like the empty dict it is falsy
NoData == <<>>

(***************************************************************************)
(* Characters and the str methods the source uses                          *)
(***************************************************************************)
UpperChars == <<"A","B","C","D","E","F","G","H","I","J","K","L","M",
                "N","O","P","Q","R","S","T","U","V","W","X","Y","Z">>
LowerChars == <<"a","b","c","d","e","f","g","h","i","j","k","l","m",
                "n","o","p","q","r","s","t","u","v","w","x","y","z">>
DigitChars == {"0","1","2","3","4","5","6","7","8","9"}
SpaceChars == {" ", "\t", "\n", "\r"}

Range(f) == {f[i] : i \in DOMAIN f}
Min(S) == CHOOSE x \in S : \A y \in S : x <= y

\* str.isupper() of one character
IsUpper(c) == c \in Range(UpperChars)

\* a character matched by \w : letters, digits and the underscore
IsWord(c) == c \in Range(UpperChars) \cup Range(LowerChars) \cup DigitChars \cup {"_"}

\* a character matched by \s, and stripped by str.strip()
IsSpace(c) == c \in SpaceChars

LowerChar(c) ==
    IF c \in Range(UpperChars)
    THEN LowerChars[CHOOSE i \in DOMAIN UpperChars : UpperChars[i] = c]
    ELSE c

\* str.lower()
Lower(s) == [i \in DOMAIN s |-> LowerChar(s[i])]

Take(s, n) == SubSeq(s, 1, IF n < Len(s) THEN n ELSE Len(s))
Drop(s, n) == SubSeq(s, n + 1, Len(s))

RECURSIVE LStrip(_)
LStrip(s) == IF s # <<>> /\ IsSpace(Head(s)) THEN LStrip(Tail(s)) ELSE s

RECURSIVE RStrip(_)
RStrip(s) ==
    IF s # <<>> /\ IsSpace(s[Len(s)]) THEN RStrip(SubSeq(s, 1, Len(s) - 1)) ELSE s

\* str.strip()
Strip(s) == RStrip(LStrip(s))

\* sep.join(parts)
RECURSIVE Join(_, _)
Join(parts, sep) ==
    IF parts = <<>> THEN <<>>
    ELSE IF Len(parts) = 1 THEN parts[1]
    ELSE parts[1] \o sep \o Join(Tail(parts), sep)

StartsWith(s, p) == Len(s) >= Len(p) /\ SubSeq(s, 1, Len(p)) = p

\* s.find(p) + 1 : the first position where p occurs in s, 0 when it does not
Find(s, p) ==
    LET at == {i \in 1..(Len(s) - Len(p) + 1) : SubSeq(s, i, i + Len(p) - 1) = p}
    IN  IF at = {} THEN 0 ELSE Min(at)

\* p in s
Contains(s, p) == Find(s, p) # 0

\* s.split(sep)
RECURSIVE Split(_, _)
Split(s, sep) ==
    LET k == Find(s, sep)
    IN  IF k = 0 THEN <<s>>
        ELSE <<SubSeq(s, 1, k - 1)>> \o Split(Drop(s, k + Len(sep) - 1), sep)

\* re.sub(r'\s+', ' ', s)
RECURSIVE CollapseSpace(_)
CollapseSpace(s) ==
    IF s = <<>> THEN <<>>
    ELSE IF IsSpace(Head(s)) THEN <<" ">> \o CollapseSpace(LStrip(s))
    ELSE <<Head(s)>> \o CollapseSpace(Tail(s))

\* re.sub(r'[^\w\s]', '', s)
RemovePunctuation(s) == SelectSeq(s, LAMBDA c : IsWord(c) \/ IsSpace(c))

\* The first position after i that holds close, 0 when there is none.
NextClose(s, i, close) ==
    LET at == {j \in (i + 1)..Len(s) : s[j] = close}
    IN  IF at = {} THEN 0 ELSE Min(at)

\* re.sub(r'<[^>]+>', '', s): a '<', one or more characters that are not '>',
\* and the first '>' after them.
RECURSIVE RemoveTags(_)
RemoveTags(s) ==
    IF s = <<>> THEN <<>>
    ELSE LET j == NextClose(s, 1, ">")
         IN  IF Head(s) = "<" /\ j > 2 THEN RemoveTags(Drop(s, j))
             ELSE <<Head(s)>> \o RemoveTags(Tail(s))

\* re.sub(r'\[.*?\]', '', s) and re.sub(r'\(.*?\)', '', s): open, as few
\* characters as possible that are not a line feed, and close.
RECURSIVE RemoveDelimited(_, _, _)
RemoveDelimited(s, open, close) ==
    IF s = <<>> THEN <<>>
    ELSE LET j == NextClose(s, 1, close)
         IN  IF Head(s) = open /\ j > 0 /\ \A k \in 2..(j - 1) : s[k] # "\n"
             THEN RemoveDelimited(Drop(s, j), open, close)
             ELSE <<Head(s)>> \o RemoveDelimited(Tail(s), open, close)

(***************************************************************************)
(* SubtitleParser                                                          *)
(***************************************************************************)
IsDigits(s, from, n) ==
    /\ Len(s) >= from + n - 1
    /\ \A k \in from..(from + n - 1) : s[k] \in DigitChars

\* \d{2}:\d{2}:\d{2}<frac>\d{3} at position from (12 characters)
IsClock(s, from, frac) ==
    /\ Len(s) >= from + 11
    /\ IsDigits(s, from, 2) /\ s[from + 2] = ":"
    /\ IsDigits(s, from + 3, 2) /\ s[from + 5] = ":"
    /\ IsDigits(s, from + 6, 2) /\ s[from + 8] = frac
    /\ IsDigits(s, from + 9, 3)

\* ^<clock> --> <clock>.*$
IsTimestamp(line, frac) ==
    /\ Len(line) >= 29
    /\ IsClock(line, 1, frac)
    /\ SubSeq(line, 13, 17) = <<" ", "-", "-", ">", " ">>
    /\ IsClock(line, 18, frac)
    /\ \A k \in 30..Len(line) : line[k] # "\n"

VTT_TIMESTAMP_PATTERN(line) == IsTimestamp(line, ".")
SRT_TIMESTAMP_PATTERN(line) == IsTimestamp(line, ",")
SRT_NUMBER_PATTERN(line) == line # <<>> /\ \A k \in DOMAIN line : line[k] \in DigitChars
VTT_HEADER_PATTERN(line) == StartsWith(line, <<"W","E","B","V","T","T">>)
VTT_NOTE_PATTERN(line) == StartsWith(line, <<"N","O","T","E">>)

\* The text of one cue line: stripped, tags removed, and the bracket and
\* parenthesis labels removed unless keep_labels.
CueLineText(raw, keep) ==
    LET text == RemoveTags(Strip(raw))
    IN  IF ~keep THEN RemoveDelimited(RemoveDelimited(text, "[", "]"), "(", ")")
        ELSE text

\* The inner loop without the test for the line that starts the next cue
RECURSIVE CollectCueToBlank(_, _, _, _, _)
CollectCueToBlank(lines, i, keep, vtt, caption_text) ==
    IF i <= Len(lines) /\ Strip(lines[i]) # <<>>
    THEN CollectCueToBlank(lines, i + 1, keep, vtt,
                           Append(caption_text, CueLineText(lines[i], keep)))
    ELSE [i |-> i, caption_text |-> caption_text]

\* The inner while loop of parse_vtt / parse_srt: collects the text lines of
\* a cue from line i on, until a blank line, the end, or a line that stops
\* the cue (next timestamp for VTT, next sequence number for SRT).
RECURSIVE CollectCue(_, _, _, _, _)
CollectCue(lines, i, keep, vtt, caption_text) ==
    IF /\ i <= Len(lines)
       /\ Strip(lines[i]) # <<>>
       /\ ~(IF vtt THEN VTT_TIMESTAMP_PATTERN(Strip(lines[i]))
                   ELSE SRT_NUMBER_PATTERN(Strip(lines[i])))
    THEN CollectCue(lines, i + 1, keep, vtt,
                    Append(caption_text, CueLineText(lines[i], keep)))
    ELSE [i |-> i, caption_text |-> caption_text]

\* The outer while loop of parse_vtt / parse_srt from line i on.
RECURSIVE ParseLines(_, _, _, _, _)
ParseLines(lines, i, keep, vtt, caps) ==
    IF i > Len(lines) THEN caps
    ELSE LET line == Strip(lines[i])
             skipped == IF vtt
                        THEN line = <<>> \/ VTT_HEADER_PATTERN(line) \/ VTT_NOTE_PATTERN(line)
                        ELSE line = <<>> \/ SRT_NUMBER_PATTERN(line)
             stamped == IF vtt THEN VTT_TIMESTAMP_PATTERN(line)
                               ELSE SRT_TIMESTAMP_PATTERN(line)
         IN  IF skipped THEN ParseLines(lines, i + 1, keep, vtt, caps)
             ELSE IF stamped
             THEN LET cue == CollectCue(lines, i + 1, keep, vtt, <<>>)
                  IN  ParseLines(lines, cue.i, keep, vtt,
                          IF cue.caption_text # <<>>
                          THEN Append(caps, Strip(Join(cue.caption_text, <<" ">>)))
                          ELSE caps)
             ELSE ParseLines(lines, i + 1, keep, vtt, caps)

parse_vtt(text, keep) == ParseLines(Split(text, <<"\n">>), 1, keep, TRUE, <<>>)
parse_srt(text, keep) == ParseLines(Split(text, <<"\n">>), 1, keep, FALSE, <<>>)

\* content[:100] is searched for the format token
SNIFF_LEN == 100

parse(text, keep) ==
    IF Contains(Take(text, SNIFF_LEN), <<"W","E","B","V","T","T">>)
    THEN parse_vtt(text, keep)
    ELSE parse_srt(text, keep)

(***************************************************************************)
(* Track texts: the subtitle files the parser is run on                    *)
(***************************************************************************)
MaxCues == 3

TxtHi      == <<"H","i",".">>
TxtSo      == <<"S","o",".">>
TxtOk      == <<"o","k">>
TxtMusic   == <<"[","M","u","s","i","c","]">>
TxtTagged  == <<"<","c",">","o","k","<","/","c",">">>
TxtAside   == <<"(","x",")"," ","S","o",".">>
TxtHeader  == <<"W","E","B","V","T","T">>
TxtVttTime == <<"0","0",":","0","0",":","0","1",".","0","0","0"," ","-","-",">"," ",
                "0","0",":","0","0",":","0","2",".","0","0","0">>
TxtSrtTime == <<"0","0",":","0","0",":","0","1",",","0","0","0"," ","-","-",">"," ",
                "0","0",":","0","0",":","0","2",",","0","0","0">>
NL         == <<"\n">>

\* A cue is the sequence of its raw text lines.
CueUniverse ==
    { <<TxtHi>>, <<TxtMusic>>, <<TxtTagged, TxtSo>>, <<TxtMusic, TxtHi>>, <<TxtAside>> }

SeqsUpTo(S, n) == UNION {[1..k -> S] : k \in 0..n}

\* The sequence number of the k-th SRT cue
SrtNumber(k) == <<CHOOSE d \in DigitChars :
                   d = <<"0","1","2","3","4","5","6","7","8","9">>[(k % 10) + 1]>>

\* A WebVTT file: the header, then every cue as a timestamp line and its text
\* lines; blank = TRUE separates the cues with a blank line, blank = FALSE
\* lets the next timestamp line follow the text directly.
RECURSIVE VttCues(_, _)
VttCues(cs, blank) ==
    IF cs = <<>> THEN <<>>
    ELSE TxtVttTime \o NL \o Join(Head(cs), NL) \o NL
         \o (IF blank THEN NL ELSE <<>>) \o VttCues(Tail(cs), blank)

VttTrack(cs, blank) == TxtHeader \o NL \o NL \o VttCues(cs, blank)

\* A SubRip file: every cue as its number, a timestamp line, its text lines
\* and a blank line.
RECURSIVE SrtCues(_, _)
SrtCues(cs, k) ==
    IF cs = <<>> THEN <<>>
    ELSE SrtNumber(k) \o NL \o TxtSrtTime \o NL \o Join(Head(cs), NL) \o NL \o NL
         \o SrtCues(Tail(cs), k + 1)

SrtTrack(cs) == SrtCues(cs, 1)

Grammars == {"vtt", "vtt_tight", "srt"}

Track(grammar, cs) ==
    CASE grammar = "vtt"       -> VttTrack(cs, TRUE)
      [] grammar = "vtt_tight" -> VttTrack(cs, FALSE)
      [] grammar = "srt"       -> SrtTrack(cs)

(***************************************************************************)
(* AIProcessor: the heuristic segmentation and the dedup                   *)
(***************************************************************************)
SentenceEnd == {".", "!", "?"}

\* The test reading the first character of the caption instead of the last
ends_with_sentence_first(caption) == caption # <<>> /\ caption[1] \in SentenceEnd

\* caption and caption[-1] in '.!?'
ends_with_sentence(caption) == caption # <<>> /\ caption[Len(caption)] \in SentenceEnd

\* i == len(captions) - 1, for the 1-based index i
is_last(i, caps) == i = Len(caps)

\* False unless the caption after the i-th exists, is not empty and starts
\* with an upper-case character
next_starts_with_capital(i, caps) ==
    /\ ~is_last(i, caps)
    /\ caps[i + 1] # <<>>
    /\ IsUpper(caps[i + 1][1])

\* ' '.join(current_paragraph), whitespace collapsed, stripped
paragraph_text(current_paragraph) ==
    Strip(CollapseSpace(Join(current_paragraph, <<" ">>)))

\* The for loop of _basic_paragraph_breaks from caption i on.
RECURSIVE BreaksLoop(_, _, _, _)
BreaksLoop(caps, i, current_paragraph, pars) ==
    IF i > Len(caps) THEN pars
    ELSE LET current == Append(current_paragraph, caps[i])
         IN  IF (ends_with_sentence(caps[i]) /\ next_starts_with_capital(i, caps))
                \/ is_last(i, caps)
             THEN BreaksLoop(caps, i + 1, <<>>,
                      IF paragraph_text(current) # <<>>
                      THEN Append(pars, paragraph_text(current))
                      ELSE pars)
             ELSE BreaksLoop(caps, i + 1, current, pars)

basic_paragraph_breaks(caps) == BreaksLoop(caps, 1, <<>>, <<>>)

\* re.sub(r'[^\w\s]', '', caption.lower())
Normalized(caption) == RemovePunctuation(Lower(caption))

\* prev_normalized and normalized == prev_normalized, where prev_normalized
\* is None when prev_caption is None or empty
IsRepeat(caption, prev_caption) ==
    LET prev_normalized ==
            IF prev_caption # None /\ prev_caption # <<>>
            THEN Normalized(prev_caption) ELSE None
    IN  /\ prev_normalized # None
        /\ prev_normalized # <<>>
        /\ Normalized(caption) = prev_normalized

\* The for loop of _remove_duplicates from caption i on.
RECURSIVE DedupLoop(_, _, _, _)
DedupLoop(caps, i, prev_caption, cleaned) ==
    IF i > Len(caps) THEN cleaned
    ELSE IF Strip(caps[i]) = <<>> THEN DedupLoop(caps, i + 1, prev_caption, cleaned)
    ELSE IF IsRepeat(caps[i], prev_caption)
         THEN DedupLoop(caps, i + 1, prev_caption, cleaned)
    ELSE DedupLoop(caps, i + 1, caps[i], Append(cleaned, Strip(caps[i])))

remove_duplicates(caps) == DedupLoop(caps, 1, None, <<>>)

(***************************************************************************)
(* MarkdownFormatter                                                       *)
(***************************************************************************)
\* [cap.strip() for cap in captions if cap.strip()]
RECURSIVE StripNonEmpty(_)
StripNonEmpty(caps) ==
    IF caps = <<>> THEN <<>>
    ELSE IF Strip(Head(caps)) = <<>> THEN StripNonEmpty(Tail(caps))
    ELSE <<Strip(Head(caps))>> \o StripNonEmpty(Tail(caps))

\* The dedup loop of _basic_format from caption i on.
RECURSIVE FormatDedupLoop(_, _, _, _)
FormatDedupLoop(caps, i, prev_caption, cleaned) ==
    IF i > Len(caps) THEN cleaned
    ELSE LET normalized == RemovePunctuation(Lower(caps[i]))
             prev_normalized ==
                 IF prev_caption # None /\ prev_caption # <<>>
                 THEN RemovePunctuation(Lower(prev_caption)) ELSE None
         IN  IF prev_normalized # None /\ prev_normalized # <<>>
                /\ normalized = prev_normalized
             THEN FormatDedupLoop(caps, i + 1, prev_caption, cleaned)
             ELSE FormatDedupLoop(caps, i + 1, caps[i], Append(cleaned, caps[i]))

\* The paragraph loop of _basic_format from caption i on.
RECURSIVE FormatParagraphLoop(_, _, _, _)
FormatParagraphLoop(caps, i, current_paragraph, pars) ==
    IF i > Len(caps) THEN pars
    ELSE LET caption == caps[i]
             current == Append(current_paragraph, caption)
             ends == caption # <<>> /\ caption[Len(caption)] \in SentenceEnd
             last == i = Len(caps)
             capital == ~last /\ caps[i + 1] # <<>> /\ IsUpper(caps[i + 1][1])
             text == Strip(CollapseSpace(Join(current, <<" ">>)))
         IN  IF (ends /\ capital) \/ last
             THEN FormatParagraphLoop(caps, i + 1, <<>>,
                      IF text # <<>> THEN Append(pars, text) ELSE pars)
             ELSE FormatParagraphLoop(caps, i + 1, current, pars)

\* The first step of _basic_format without the dedup loop after it
basic_format_without_dedup(caps) == StripNonEmpty(caps)

\* The dedup step of _basic_format alone
basic_format_dedup(caps) == FormatDedupLoop(StripNonEmpty(caps), 1, None, <<>>)

basic_format(caps) ==
    IF caps = <<>> THEN <<>>
    ELSE FormatParagraphLoop(basic_format_dedup(caps), 1, <<>>, <<>>)

TxtSummaryHeader == <<"#","#"," ","E","x","e","c","u","t","i","v","e"," ",
                      "S","u","m","m","a","r","y">>
TxtRule == <<"-","-","-">>
TxtTranscriptHeader == <<"#","#"," ","F","u","l","l"," ",
                         "T","r","a","n","s","c","r","i","p","t">>

\* for paragraph in paragraphs: append the paragraph and an empty line
RECURSIVE ParagraphLines(_)
ParagraphLines(pars) ==
    IF pars = <<>> THEN <<>>
    ELSE <<Head(pars), <<>>>> \o ParagraphLines(Tail(pars))

\* The lines format writes before the paragraphs when a title is given
TitleLines(title) ==
    IF title # None /\ title # <<>> THEN << <<"#", " ">> \o title, <<>> >> ELSE <<>>

\* The summary section without the empty line after the rule
SummaryLinesTight(sum) ==
    IF sum # <<>>
    THEN <<TxtSummaryHeader, <<>>, sum, <<>>, TxtRule, TxtTranscriptHeader, <<>>>>
    ELSE <<>>

\* The lines format writes before the paragraphs when there is a summary
SummaryLines(sum) ==
    IF sum # <<>>
    THEN <<TxtSummaryHeader, <<>>, sum, <<>>, TxtRule, <<>>, TxtTranscriptHeader, <<>>>>
    ELSE <<>>

\* MarkdownFormatter.format; ai_data is NoData or a record with the keys
\* paragraphs, summary and title.
format(caps, title, ai_data) ==
    LET given == DOMAIN ai_data # {}
        pars == IF given THEN ai_data.paragraphs ELSE basic_format(caps)
        sum  == IF given THEN ai_data.summary ELSE <<>>
        ttl  == IF given THEN ai_data.title ELSE title
    IN  IF pars = <<>> THEN <<>>
        ELSE Strip(Join(TitleLines(ttl) \o SummaryLines(sum) \o ParagraphLines(pars), NL))

(***************************************************************************)
(* Spinner                                                                 *)
(***************************************************************************)
\* Spinner(message) followed by start(): running is set and the thread runs.
\* drawn: the thread has written a frame that no stop() has erased.
StartedSpinner(op) == [op |-> op, running |-> TRUE, alive |-> TRUE, drawn |-> FALSE]

\* stop(): running is cleared, the thread is joined and the line is erased.
StoppedSpinner(sp) == [sp EXCEPT !.running = FALSE, !.alive = FALSE, !.drawn = FALSE]

\* stop() of the spinner created last
StopLast(sps) == [sps EXCEPT ![Len(sps)] = StoppedSpinner(@)]

\* One turn of the while loop of _spin in the thread of spinner k.
Spin(k) ==
    /\ k \in DOMAIN spinners
    /\ spinners[k].alive
    /\ spinners[k].running
    /\ ~spinners[k].drawn
    /\ spinners' = [spinners EXCEPT ![k].drawn = TRUE]
    /\ UNCHANGED <<pc, content, keep_labels, cues, captions, use_ai, ollama_available,
                   video_title, cleaned_captions, stack, retval, paragraphs, summary,
                   markdown, written, outcome, calls, resegmented>>

(***************************************************************************)
(* AIProcessor.detect_paragraph_breaks and _chunked_paragraph_detection    *)
(***************************************************************************)
\* len(captions) < 5 sends the captions to the heuristic
MIN_AI_CAPTIONS == 5

\* len(full_text) > 8000 in the source.  The model keeps the comparison and
\* scales the threshold to the length of its captions.
MAX_BLOB == 16

\* chunk_size = 100 in the source, scaled with MAX_BLOB; it stays at least
\* MIN_AI_CAPTIONS, so that a full chunk is still sent to the assistant.
chunk_size == 5

\* The number of frames of detect_paragraph_breaks and
\* _chunked_paragraph_detection the interpreter allows before it raises
\* RecursionError (sys.getrecursionlimit() frames in CPython).
RecursionLimit == 4

TxtBreak == <<"<","B","R","E","A","K",">">>

Top(stk) == stk[Len(stk)]
Pop(stk) == SubSeq(stk, 1, Len(stk) - 1)

DetectFrame(caps) ==
    [fn |-> "detect", caps |-> caps, state |-> "entry", i |-> 0, acc |-> <<>>]
ChunkedFrame(caps) ==
    [fn |-> "chunked", caps |-> caps, state |-> "loop", i |-> 1, acc |-> <<>>]

\* ' '.join(captions)
full_text(caps) == Join(caps, <<" ">>)

\* The chunks without the shorter one at the end
ChunksWithoutTail(caps) ==
    [k \in 1..(Len(caps) \div chunk_size) |->
        SubSeq(caps, (k - 1) * chunk_size + 1, k * chunk_size)]

\* [captions[i:i + chunk_size] for i in range(0, len(captions), chunk_size)]
Chunks(caps) ==
    LET n == (Len(caps) + chunk_size - 1) \div chunk_size
    IN  [k \in 1..n |->
            SubSeq(caps, (k - 1) * chunk_size + 1,
                   IF k * chunk_size < Len(caps) THEN k * chunk_size ELSE Len(caps))]

\* [p.strip() for p in processed_text.split('<BREAK>') if p.strip()]
RECURSIVE StripParts(_)
StripParts(parts) ==
    IF parts = <<>> THEN <<>>
    ELSE IF Strip(Head(parts)) = <<>> THEN StripParts(Tail(parts))
    ELSE <<Strip(Head(parts))>> \o StripParts(Tail(parts))

ResponseParagraphs(response) == StripParts(Split(Strip(response), TxtBreak))

RECURSIVE TotalLen(_)
TotalLen(parts) == IF parts = <<>> THEN 0 ELSE Len(Head(parts)) + TotalLen(Tail(parts))

\* The validation without its length test
RejectedByCountOnly(pars, text) == Len(pars) < 2

\* len(paragraphs) < 2 or sum(len(p) for p in paragraphs) < len(full_text) * 0.7
\* The float product is compared exactly: 10 * sum < 7 * len.
Rejected(pars, text) ==
    Len(pars) < 2 \/ 10 * TotalLen(pars) < 7 * Len(text)

\* What a frame's caller does with the value the frame returns; stk is the
\* stack below the returning frame.  A _chunked_paragraph_detection frame
\* extends all_paragraphs and goes on with the next chunk; a
\* detect_paragraph_breaks frame returns the value of the chunked call.
RECURSIVE Return(_, _)
Return(stk, value) ==
    IF stk = <<>> THEN [stack |-> <<>>, retval |-> value]
    ELSE IF Top(stk).fn = "chunked"
    THEN [stack |-> [stk EXCEPT ![Len(stk)].acc = @ \o value, ![Len(stk)].i = @ + 1],
          retval |-> value]
    ELSE Return(Pop(stk), value)

\* The entry of one ollama.generate call in calls
Call(op, text, caps, depth) ==
    [op |-> op, text |-> text, caps |-> caps, depth |-> depth,
     outcome |-> "pending", response |-> <<>>, result |-> <<>>]

EndCall(cs, how, response, result) ==
    [cs EXCEPT ![Len(cs)].outcome = how, ![Len(cs)].response = response,
               ![Len(cs)].result = result]

\* The texts the assistant answers with when asked to mark the breaks of the
\* captions caps: the text unchanged, the text with a marker after the k-th
\* caption, a marker between all captions, nothing, a short fragment, a
\* reply with a preamble of its own, and a reply that lost the last caption.
BreakAfter(caps, k) ==
    full_text(SubSeq(caps, 1, k)) \o <<" ">> \o TxtBreak \o <<" ">>
    \o full_text(SubSeq(caps, k + 1, Len(caps)))

TxtPreamble == <<"S","u","r","e",":">>

BreakResponses(caps) ==
    {full_text(caps), Join(caps, TxtBreak), <<>>, <<" ">> \o TxtBreak,
     caps[1] \o TxtBreak \o caps[2],
     TxtPreamble \o TxtBreak \o full_text(caps),
     BreakAfter(SubSeq(caps, 1, Len(caps) - 1), 1)}
    \cup {BreakAfter(caps, k) : k \in 1..(Len(caps) - 1)}

SegmentVars == <<content, keep_labels, cues, captions, use_ai, ollama_available,
                 video_title, cleaned_captions, paragraphs, summary, markdown,
                 written, outcome, resegmented>>

\* if not self.ollama_available or len(captions) < 5: return the heuristic
DetectBasic ==
    /\ pc = "detect" /\ stack # <<>>
    /\ Top(stack).fn = "detect" /\ Top(stack).state = "entry"
    /\ ~ollama_available \/ Len(Top(stack).caps) < MIN_AI_CAPTIONS
    /\ LET r == Return(Pop(stack), basic_paragraph_breaks(Top(stack).caps))
       IN  stack' = r.stack /\ retval' = r.retval
    /\ UNCHANGED <<pc, spinners, calls>>
    /\ UNCHANGED SegmentVars

\* if len(full_text) > 8000: return self._chunked_paragraph_detection(captions)
\* The call raises RecursionError when the stack is full; the except clause
\* of this frame then returns the heuristic's paragraphs.
DetectChunked ==
    /\ pc = "detect" /\ stack # <<>>
    /\ Top(stack).fn = "detect" /\ Top(stack).state = "entry"
    /\ ollama_available /\ Len(Top(stack).caps) >= MIN_AI_CAPTIONS
    /\ Len(full_text(Top(stack).caps)) > MAX_BLOB
    /\ IF Len(stack) < RecursionLimit
       THEN /\ stack' = Append([stack EXCEPT ![Len(stack)].state = "chunking"],
                               ChunkedFrame(Top(stack).caps))
            /\ UNCHANGED retval
       ELSE LET r == Return(Pop(stack), basic_paragraph_breaks(Top(stack).caps))
            IN  stack' = r.stack /\ retval' = r.retval
    /\ UNCHANGED <<pc, spinners, calls>>
    /\ UNCHANGED SegmentVars

\* The prompt is built, the spinner is started and ollama.generate is called.
DetectAsk ==
    /\ pc = "detect" /\ stack # <<>>
    /\ Top(stack).fn = "detect" /\ Top(stack).state = "entry"
    /\ ollama_available /\ Len(Top(stack).caps) >= MIN_AI_CAPTIONS
    /\ Len(full_text(Top(stack).caps)) <= MAX_BLOB
    /\ stack' = [stack EXCEPT ![Len(stack)].state = "generate"]
    /\ spinners' = Append(spinners, StartedSpinner("detect_paragraph_breaks"))
    /\ calls' = Append(calls, Call("breaks", full_text(Top(stack).caps),
                                   Top(stack).caps, Len(stack)))
    /\ UNCHANGED <<pc, retval>>
    /\ UNCHANGED SegmentVars

\* ollama.generate returns a response: the spinner is stopped, the text is
\* split at the markers and validated.
GenerateBreaks ==
    /\ pc = "detect" /\ stack # <<>>
    /\ Top(stack).fn = "detect" /\ Top(stack).state = "generate"
    /\ \E response \in BreakResponses(Top(stack).caps) :
         LET pars == ResponseParagraphs(response)
             value == IF Rejected(pars, full_text(Top(stack).caps))
                      THEN basic_paragraph_breaks(Top(stack).caps)
                      ELSE pars
             r == Return(Pop(stack), value)
         IN  /\ stack' = r.stack /\ retval' = r.retval
             /\ calls' = EndCall(calls, "returned", response, value)
    /\ spinners' = StopLast(spinners)
    /\ UNCHANGED pc
    /\ UNCHANGED SegmentVars

\* ollama.generate raises: the except clause returns the heuristic's
\* paragraphs; spinner.stop() is not reached.
GenerateBreaksRaises ==
    /\ pc = "detect" /\ stack # <<>>
    /\ Top(stack).fn = "detect" /\ Top(stack).state = "generate"
    /\ LET value == basic_paragraph_breaks(Top(stack).caps)
           r == Return(Pop(stack), value)
       IN  /\ stack' = r.stack /\ retval' = r.retval
           /\ calls' = EndCall(calls, "raised", <<>>, value)
    /\ UNCHANGED <<pc, spinners>>
    /\ UNCHANGED SegmentVars

\* ollama.generate returns something without a usable 'response' entry: the
\* spinner is stopped, response['response'].strip() raises and the except
\* clause returns the heuristic's paragraphs.
GenerateBreaksMalformed ==
    /\ pc = "detect" /\ stack # <<>>
    /\ Top(stack).fn = "detect" /\ Top(stack).state = "generate"
    /\ LET value == basic_paragraph_breaks(Top(stack).caps)
           r == Return(Pop(stack), value)
       IN  /\ stack' = r.stack /\ retval' = r.retval
           /\ calls' = EndCall(calls, "malformed", <<>>, value)
    /\ spinners' = StopLast(spinners)
    /\ UNCHANGED pc
    /\ UNCHANGED SegmentVars

\* One turn of the for loop of _chunked_paragraph_detection: the next chunk
\* is handed to detect_paragraph_breaks.  When the stack is full the call
\* raises RecursionError, which leaves this frame and is caught by the
\* except clause of the detect_paragraph_breaks frame that called it.
ChunkedCall ==
    /\ pc = "detect" /\ stack # <<>>
    /\ Top(stack).fn = "chunked"
    /\ Top(stack).i <= Len(Chunks(Top(stack).caps))
    /\ IF Len(stack) < RecursionLimit
       THEN /\ stack' = Append(stack, DetectFrame(Chunks(Top(stack).caps)[Top(stack).i]))
            /\ UNCHANGED retval
       ELSE LET caller == Top(Pop(stack))
                r == Return(Pop(Pop(stack)), basic_paragraph_breaks(caller.caps))
            IN  stack' = r.stack /\ retval' = r.retval
    /\ UNCHANGED <<pc, spinners, calls>>
    /\ UNCHANGED SegmentVars

\* return all_paragraphs
ChunkedReturn ==
    /\ pc = "detect" /\ stack # <<>>
    /\ Top(stack).fn = "chunked"
    /\ Top(stack).i > Len(Chunks(Top(stack).caps))
    /\ LET r == Return(Pop(stack), Top(stack).acc)
       IN  stack' = r.stack /\ retval' = r.retval
    /\ UNCHANGED <<pc, spinners, calls>>
    /\ UNCHANGED SegmentVars

(***************************************************************************)
(* AIProcessor.generate_summary and AIProcessor.process                    *)
(***************************************************************************)
\* full_text[:3000] is put into the prompt
SUMMARY_INPUT_LEN == 3000

\* The texts the assistant answers with when asked for a summary
SummaryResponses == { <<"A"," ","t","a","l","k",".","\n">>, <<" ">> }

PipelineVars == <<content, keep_labels, cues, captions, use_ai, ollama_available,
                  video_title, markdown, written, outcome, resegmented>>

\* process with the assistant available: the captions are cleaned and
\* detect_paragraph_breaks is called on them.
ProcessDetect ==
    /\ pc = "process"
    /\ ollama_available
    /\ cleaned_captions' = remove_duplicates(captions)
    /\ stack' = <<DetectFrame(remove_duplicates(captions))>>
    /\ pc' = "detect"
    /\ UNCHANGED <<retval, paragraphs, summary, spinners, calls>>
    /\ UNCHANGED PipelineVars

\* process with the assistant unavailable: the captions are cleaned and
\* segmented by the heuristic; the summary stays empty.
ProcessBasic ==
    /\ pc = "process"
    /\ ~ollama_available
    /\ cleaned_captions' = remove_duplicates(captions)
    /\ paragraphs' = basic_paragraph_breaks(remove_duplicates(captions))
    /\ summary' = <<>>
    /\ pc' = "format_ai"
    /\ UNCHANGED <<stack, retval, spinners, calls>>
    /\ UNCHANGED PipelineVars

\* detect_paragraph_breaks has returned to process, which calls
\* generate_summary: the prompt is built, the spinner is started and
\* ollama.generate is called.
ProcessSummarize ==
    /\ pc = "detect" /\ stack = <<>>
    /\ ollama_available
    /\ paragraphs' = retval
    /\ spinners' = Append(spinners, StartedSpinner("generate_summary"))
    /\ calls' = Append(calls, Call("summary",
                                   Take(Join(retval, <<" ">>), SUMMARY_INPUT_LEN),
                                   <<>>, 0))
    /\ pc' = "summarize"
    /\ UNCHANGED <<cleaned_captions, stack, retval, summary>>
    /\ UNCHANGED PipelineVars

\* ollama.generate returns a response: the spinner is stopped and the
\* stripped text is the summary.
SummaryReturns ==
    /\ pc = "summarize"
    /\ \E response \in SummaryResponses :
         /\ summary' = Strip(response)
         /\ calls' = EndCall(calls, "returned", response, <<Strip(response)>>)
    /\ spinners' = StopLast(spinners)
    /\ pc' = "format_ai"
    /\ UNCHANGED <<cleaned_captions, stack, retval, paragraphs>>
    /\ UNCHANGED PipelineVars

\* ollama.generate raises: the except clause returns ""; spinner.stop() is
\* not reached.
SummaryRaises ==
    /\ pc = "summarize"
    /\ summary' = <<>>
    /\ calls' = EndCall(calls, "raised", <<>>, << <<>> >>)
    /\ pc' = "format_ai"
    /\ UNCHANGED <<cleaned_captions, stack, retval, paragraphs, spinners>>
    /\ UNCHANGED PipelineVars

\* The response has no usable 'response' entry: the spinner is stopped,
\* response['response'].strip() raises and the except clause returns "".
SummaryMalformed ==
    /\ pc = "summarize"
    /\ summary' = <<>>
    /\ calls' = EndCall(calls, "malformed", <<>>, << <<>> >>)
    /\ spinners' = StopLast(spinners)
    /\ pc' = "format_ai"
    /\ UNCHANGED <<cleaned_captions, stack, retval, paragraphs>>
    /\ UNCHANGED PipelineVars

(***************************************************************************)
(* YouTubeTranscriber                                                      *)
(***************************************************************************)
MaxCaptions == 6

TxtUp      == <<"S","o">>
TxtTitle   == <<"T">>

PipelineTitles == {TxtTitle}

\* The subtitle files of the pipeline: up to MaxCaptions one-line cues of
\* plain text, and a few files with a label cue, in a grammar of their own
\* or without any cue.
PipelineInputs ==
    {[grammar |-> "vtt", texts |-> cs, keep |-> FALSE] :
        cs \in SeqsUpTo({<<TxtHi>>, <<TxtOk>>, <<TxtUp>>}, MaxCaptions)}
    \cup
    {[grammar |-> g, texts |-> cs, keep |-> k] :
        g \in {"vtt", "srt", "untimed"},
        cs \in {<<>>, << <<TxtMusic>> >>, << <<TxtMusic>>, <<TxtHi>> >>},
        k \in BOOLEAN}

\* The file of an input: a track in its grammar, or the bare text lines
File(grammar, cs) ==
    IF grammar = "untimed"
    THEN Join([k \in DOMAIN cs |-> Join(cs[k], NL)], NL)
    ELSE Track(grammar, cs)

AfterDownload == <<content, keep_labels, cues, use_ai, ollama_available, video_title,
                   stack, retval, spinners, calls, resegmented>>

\* download_captions: the spinner is created and started
DownloadStart ==
    /\ pc = "download"
    /\ spinners' = Append(spinners, StartedSpinner("download_captions"))
    /\ pc' = "extract"
    /\ UNCHANGED <<content, keep_labels, cues, captions, use_ai, ollama_available,
                   video_title, cleaned_captions, stack, retval, paragraphs, summary,
                   markdown, written, outcome, calls, resegmented>>

\* extract_info raises: the except clause stops the spinner and raises; the
\* failure leaves transcribe.
ExtractFails ==
    /\ pc = "extract"
    /\ spinners' = StopLast(spinners)
    /\ outcome' = "download_failed"
    /\ pc' = "done"
    /\ UNCHANGED <<content, keep_labels, cues, captions, use_ai, ollama_available,
                   video_title, cleaned_captions, stack, retval, paragraphs, summary,
                   markdown, written, calls, resegmented>>

\* extract_info returns and the spinner is stopped, but no subtitle file was
\* written: "No captions found" is raised, the except clause stops the
\* spinner again and raises; the failure leaves transcribe.
ExtractNoCaptions ==
    /\ pc = "extract"
    /\ spinners' = StopLast(StopLast(spinners))
    /\ outcome' = "no_captions"
    /\ pc' = "done"
    /\ UNCHANGED <<content, keep_labels, cues, captions, use_ai, ollama_available,
                   video_title, cleaned_captions, stack, retval, paragraphs, summary,
                   markdown, written, calls, resegmented>>

\* extract_info returns, the spinner is stopped and the subtitle file is
\* found; transcribe reads it.
ExtractFound ==
    /\ pc = "extract"
    /\ video_title' \in PipelineTitles
    /\ spinners' = StopLast(spinners)
    /\ pc' = "parse"
    /\ UNCHANGED <<content, keep_labels, cues, captions, use_ai, ollama_available,
                   cleaned_captions, stack, retval, paragraphs, summary,
                   markdown, written, outcome, calls, resegmented>>

\* captions = SubtitleParser.parse(subtitle_content, self.keep_labels)
TranscribeParse ==
    /\ pc = "parse"
    /\ captions' = parse(content, keep_labels)
    /\ pc' = IF use_ai THEN "process" ELSE "format"
    /\ UNCHANGED <<cleaned_captions, paragraphs, summary, markdown, written, outcome>>
    /\ UNCHANGED AfterDownload

\* markdown = MarkdownFormatter.format(captions, video_title, ai_data=None)
FormatBasic ==
    /\ pc = "format"
    /\ markdown' = format(captions, video_title, NoData)
    /\ pc' = "write"
    /\ UNCHANGED <<captions, cleaned_captions, paragraphs, summary, written, outcome>>
    /\ UNCHANGED AfterDownload

\* process returns ai_data and
\* markdown = MarkdownFormatter.format(None, video_title, ai_data=ai_data)
FormatAI ==
    /\ pc = "format_ai"
    /\ markdown' = format(NoData, video_title,
                          [paragraphs |-> paragraphs, summary |-> summary,
                           title |-> video_title])
    /\ pc' = "write"
    /\ UNCHANGED <<captions, cleaned_captions, paragraphs, summary, written, outcome>>
    /\ UNCHANGED AfterDownload

\* The Markdown is written to the output file and returned.
WriteOutput ==
    /\ pc = "write"
    /\ written' = markdown
    /\ outcome' = "returned"
    /\ pc' = "done"
    /\ UNCHANGED <<captions, cleaned_captions, paragraphs, summary, markdown>>
    /\ UNCHANGED AfterDownload

\* transcribe ended by raising a failure to its caller
Raised == outcome \in {"download_failed", "no_captions"}

NoCues == [grammar |-> "none", texts |-> <<>>]
NoResegmented == [whole |-> <<>>, singles |-> <<>>]

\* The state after YouTubeTranscriber(...) is constructed, with the file the
\* download will deliver; AIProcessor.__init__ has probed the assistant.
Init ==
    /\ pc = "download"
    /\ \E in \in PipelineInputs :
         /\ content = File(in.grammar, in.texts)
         /\ cues = [grammar |-> in.grammar, texts |-> in.texts]
         /\ keep_labels = in.keep
    /\ use_ai \in BOOLEAN
    /\ ollama_available \in (IF use_ai THEN BOOLEAN ELSE {FALSE})
    /\ captions = <<>>
    /\ video_title = None
    /\ cleaned_captions = <<>>
    /\ stack = <<>>
    /\ retval = <<>>
    /\ paragraphs = <<>>
    /\ summary = <<>>
    /\ markdown = <<>>
    /\ written = None
    /\ outcome = "running"
    /\ spinners = <<>>
    /\ calls = <<>>
    /\ resegmented = NoResegmented

Next ==
    \/ DownloadStart
    \/ ExtractFails
    \/ ExtractNoCaptions
    \/ ExtractFound
    \/ TranscribeParse
    \/ FormatBasic
    \/ ProcessDetect
    \/ ProcessBasic
    \/ DetectBasic
    \/ DetectChunked
    \/ DetectAsk
    \/ GenerateBreaks
    \/ GenerateBreaksRaises
    \/ GenerateBreaksMalformed
    \/ ChunkedCall
    \/ ChunkedReturn
    \/ ProcessSummarize
    \/ SummaryReturns
    \/ SummaryRaises
    \/ SummaryMalformed
    \/ FormatAI
    \/ WriteOutput
    \/ \E k \in DOMAIN spinners : Spin(k)

Spec == Init /\ [][Next]_vars

(***************************************************************************)
(* The parser alone: parse applied to track texts of both grammars         *)
(***************************************************************************)
NoPipeline ==
    /\ use_ai = FALSE
    /\ ollama_available = FALSE
    /\ video_title = None
    /\ stack = <<>>
    /\ retval = <<>>
    /\ written = None
    /\ outcome = "running"
    /\ spinners = <<>>
    /\ calls = <<>>

InitParse ==
    /\ pc = "parse_track"
    /\ \E g \in Grammars, cs \in SeqsUpTo(CueUniverse, MaxCues) :
         /\ content = Track(g, cs)
         /\ cues = [grammar |-> g, texts |-> cs]
    /\ keep_labels \in BOOLEAN
    /\ captions = <<>>
    /\ cleaned_captions = <<>>
    /\ paragraphs = <<>>
    /\ summary = <<>>
    /\ markdown = <<>>
    /\ resegmented = NoResegmented
    /\ NoPipeline

ParseTrack ==
    /\ pc = "parse_track"
    /\ captions' = parse(content, keep_labels)
    /\ pc' = "parsed"
    /\ UNCHANGED <<content, keep_labels, cues, use_ai, ollama_available, video_title,
                   cleaned_captions, stack, retval, paragraphs, summary, markdown,
                   written, outcome, spinners, calls, resegmented>>

NextParse == ParseTrack

SpecParse == InitParse /\ [][NextParse]_vars

(***************************************************************************)
(* The dedup alone: _remove_duplicates and the dedup step of _basic_format *)
(***************************************************************************)
MaxDedupLen == 3

TxtHello   == <<"H","e","l","l","o"," ","t","h","e","r","e",".">>
TxtHelloNp == <<"H","e","l","l","o"," ","t","h","e","r","e">>
TxtGoodbye == <<"G","o","o","d","b","y","e",".">>
TxtDots    == <<".",".",".">>
TxtBang    == <<"!">>

\* Captions as the parser returns them: stripped, possibly empty
DedupCaptions == {TxtHello, TxtHelloNp, TxtGoodbye, TxtDots, TxtBang, <<>>}

InitDedup ==
    /\ pc = "dedupe"
    /\ captions \in SeqsUpTo(DedupCaptions, MaxDedupLen)
    /\ content = <<>>
    /\ keep_labels = FALSE
    /\ cues = NoCues
    /\ cleaned_captions = <<>>
    /\ paragraphs = <<>>
    /\ summary = <<>>
    /\ markdown = <<>>
    /\ resegmented = NoResegmented
    /\ NoPipeline

RemoveDuplicates ==
    /\ pc = "dedupe"
    /\ cleaned_captions' = remove_duplicates(captions)
    /\ pc' = "deduped"
    /\ UNCHANGED <<content, keep_labels, cues, captions, use_ai, ollama_available,
                   video_title, stack, retval, paragraphs, summary, markdown,
                   written, outcome, spinners, calls, resegmented>>

FormatDedup ==
    /\ pc = "dedupe"
    /\ cleaned_captions' = basic_format_dedup(captions)
    /\ pc' = "format_deduped"
    /\ UNCHANGED <<content, keep_labels, cues, captions, use_ai, ollama_available,
                   video_title, stack, retval, paragraphs, summary, markdown,
                   written, outcome, spinners, calls, resegmented>>

NextDedup == RemoveDuplicates \/ FormatDedup

SpecDedup == InitDedup /\ [][NextDedup]_vars

(***************************************************************************)
(* The heuristic alone: _basic_paragraph_breaks, run again on its output   *)
(***************************************************************************)
MaxHeuristicLen == 4

TxtThere == <<"T","h","e","r","e",".">>
TxtSoLow == <<"s","o">>
TxtAnd   == <<"A","n","d"," ">>
TxtAsk   == <<" ","O","k","?">>

HeuristicCaptions == {TxtHi, TxtThere, TxtSoLow, TxtDots, TxtAnd, TxtAsk, <<>>}

InitHeuristic ==
    /\ pc = "segment"
    /\ cleaned_captions \in SeqsUpTo(HeuristicCaptions, MaxHeuristicLen)
    /\ content = <<>>
    /\ keep_labels = FALSE
    /\ cues = NoCues
    /\ captions = <<>>
    /\ paragraphs = <<>>
    /\ summary = <<>>
    /\ markdown = <<>>
    /\ resegmented = NoResegmented
    /\ NoPipeline

Segment ==
    /\ pc = "segment"
    /\ paragraphs' = basic_paragraph_breaks(cleaned_captions)
    /\ pc' = "segmented"
    /\ UNCHANGED <<content, keep_labels, cues, captions, use_ai, ollama_available,
                   video_title, cleaned_captions, stack, retval, summary, markdown,
                   written, outcome, spinners, calls, resegmented>>

\* The heuristic on the paragraph list as a caption sequence, and on each
\* paragraph alone.
Resegment ==
    /\ pc = "segmented"
    /\ resegmented' =
         [whole |-> basic_paragraph_breaks(paragraphs),
          singles |-> [k \in DOMAIN paragraphs |->
                          basic_paragraph_breaks(<<paragraphs[k]>>)]]
    /\ pc' = "resegmented"
    /\ UNCHANGED <<content, keep_labels, cues, captions, use_ai, ollama_available,
                   video_title, cleaned_captions, stack, retval, paragraphs, summary,
                   markdown, written, outcome, spinners, calls>>

NextHeuristic == Segment \/ Resegment

SpecHeuristic == InitHeuristic /\ [][NextHeuristic]_vars

(***************************************************************************)
(* The formatter alone: format applied to a title, a summary and           *)
(* paragraphs as the segmenter returns them (stripped, not empty)          *)
(***************************************************************************)
MaxParagraphs == 3

TxtMyTitle  == <<"M","y"," ","T">>
TxtSummary  == <<"S",".">>
TxtSummary2 == <<"I","t"," ","i","s",".","\n","S","o",".">>
TxtParaA    == <<"A",".">>
TxtParaB    == <<"B",".">>
TxtParaC    == <<"H","i","."," ","s","o">>

RenderTitles == {None, <<>>, TxtTitle, TxtMyTitle}
RenderSummaries == {<<>>, TxtSummary, TxtSummary2}
RenderParagraphs == {TxtParaA, TxtParaB, TxtParaC}

InitRender ==
    /\ pc = "render"
    /\ video_title \in RenderTitles
    /\ summary \in RenderSummaries
    /\ paragraphs \in SeqsUpTo(RenderParagraphs, MaxParagraphs)
    /\ content = <<>>
    /\ keep_labels = FALSE
    /\ cues = NoCues
    /\ captions = <<>>
    /\ cleaned_captions = <<>>
    /\ markdown = <<>>
    /\ resegmented = NoResegmented
    /\ use_ai = FALSE
    /\ ollama_available = FALSE
    /\ stack = <<>>
    /\ retval = <<>>
    /\ written = None
    /\ outcome = "running"
    /\ spinners = <<>>
    /\ calls = <<>>

Render ==
    /\ pc = "render"
    /\ markdown' = format(NoData, None,
                          [paragraphs |-> paragraphs, summary |-> summary,
                           title |-> video_title])
    /\ pc' = "rendered"
    /\ UNCHANGED <<content, keep_labels, cues, captions, use_ai, ollama_available,
                   video_title, cleaned_captions, stack, retval, paragraphs, summary,
                   written, outcome, spinners, calls, resegmented>>

NextRender == Render

SpecRender == InitRender /\ [][NextRender]_vars

(***************************************************************************)
(* The two pipelines without the assistant: transcribe from the parsed     *)
(* captions on, with use_ai and the assistant unavailable (process, then   *)
(* format with ai_data) and without use_ai (format with the captions)      *)
(***************************************************************************)
MaxEquivLen == 3

TxtGap == <<"a"," "," ","b">>

\* Captions as the parser returns them: stripped, possibly empty
EquivCaptions == {TxtHello, TxtHelloNp, TxtGoodbye, TxtSoLow, TxtDots, TxtGap, <<>>}
EquivTitles == {None, <<>>, TxtTitle}

InitEquiv ==
    /\ use_ai \in BOOLEAN
    /\ pc = IF use_ai THEN "process" ELSE "format"
    /\ ollama_available = FALSE
    /\ captions \in SeqsUpTo(EquivCaptions, MaxEquivLen)
    /\ video_title \in EquivTitles
    /\ content = <<>>
    /\ keep_labels = FALSE
    /\ cues = NoCues
    /\ cleaned_captions = <<>>
    /\ paragraphs = <<>>
    /\ summary = <<>>
    /\ markdown = <<>>
    /\ resegmented = NoResegmented
    /\ stack = <<>>
    /\ retval = <<>>
    /\ written = None
    /\ outcome = "running"
    /\ spinners = <<>>
    /\ calls = <<>>

NextEquiv == ProcessBasic \/ FormatAI \/ FormatBasic \/ WriteOutput

SpecEquiv == InitEquiv /\ [][NextEquiv]_vars

(***************************************************************************)
(* Properties                                                              *)
(***************************************************************************)
\* process has assigned paragraphs (the assistant enabled)
Segmented == use_ai /\ pc \in {"summarize", "format_ai", "write", "done"} /\ ~Raised

\* process has returned ai_data to transcribe
ProcessReturned == use_ai /\ pc \in {"format_ai", "write", "done"} /\ ~Raised

BreakCalls == {k \in DOMAIN calls : calls[k].op = "breaks"}
SummaryCalls == {k \in DOMAIN calls : calls[k].op = "summary"}

\* The response splits into fewer than 2 non-empty segments, or the segments
\* hold less than 70% of the characters of the blob.
FailsGate(response, blob) ==
    LET segments == StripParts(Split(Strip(response), TxtBreak))
    IN  Len(segments) < 2 \/ TotalLen(segments) * 10 < Len(blob) * 7

AnsweredBadly(call) ==
    call.outcome = "returned" /\ FailsGate(call.response, call.text)

\* C1 as claimed: when the assistant was asked about an input of at least 5
\* captions and every response it gave fails the validation gate, the
\* paragraph list finally returned is the heuristic's output for the whole
\* input, chunked or not.
C1_FinalListIsHeuristicOfInput ==
    (/\ Segmented
     /\ Len(cleaned_captions) >= MIN_AI_CAPTIONS
     /\ BreakCalls # {}
     /\ \A k \in BreakCalls : AnsweredBadly(calls[k]))
    => paragraphs = basic_paragraph_breaks(cleaned_captions)

\* C1 amended: every generate call whose response fails the validation gate
\* returns the heuristic's output for the caption sequence that was sent in
\* that call (the whole input, or one chunk of it); when the whole input was
\* sent, that is the paragraph list finally returned.
C1_RejectedCallIsHeuristicOfSent ==
    \A k \in BreakCalls :
        AnsweredBadly(calls[k]) =>
            /\ Len(calls[k].caps) >= MIN_AI_CAPTIONS
            /\ calls[k].result = basic_paragraph_breaks(calls[k].caps)
            /\ (calls[k].depth = 1 /\ Segmented) =>
                   paragraphs = basic_paragraph_breaks(cleaned_captions)

C1_Witness ==
    /\ pc = "done"
    /\ \E k \in BreakCalls :
         /\ AnsweredBadly(calls[k])
         /\ calls[k].depth = 1
         /\ calls[k].response # <<>>
         /\ Len(paragraphs) >= 2
         /\ paragraphs = basic_paragraph_breaks(cleaned_captions)

\* C2: process returns normally whatever the assistant does; a failure
\* raised in a segmentation call yields the heuristic's paragraphs for the
\* captions of that call, a failure raised in the summary call yields the
\* empty summary, and a non-empty caption sequence always yields paragraphs.
C2_AssistantFailuresRecovered ==
    /\ (use_ai /\ pc = "done" /\ ~Raised) => outcome = "returned"
    /\ ProcessReturned =>
         /\ \A k \in BreakCalls :
                calls[k].outcome \in {"raised", "malformed"} =>
                    calls[k].result = basic_paragraph_breaks(calls[k].caps)
         /\ \A k \in SummaryCalls :
                calls[k].outcome \in {"raised", "malformed"} => summary = <<>>
         /\ captions # <<>> => paragraphs # <<>>

\* C3: the paragraphs process returns partition the cleaned captions:
\* joined and whitespace-normalized they are the space-joined cleaned
\* caption text, and none of them is empty.
C3_ParagraphsPartitionCaptions ==
    Segmented =>
        /\ CollapseSpace(Strip(Join(paragraphs, <<" ">>)))
               = CollapseSpace(Strip(Join(cleaned_captions, <<" ">>)))
        /\ \A k \in DOMAIN paragraphs : paragraphs[k] # <<>>

\* The form the claim compares: lower case, with every character that is
\* neither a letter, a digit nor whitespace removed
ClaimNormalized(caption) ==
    SelectSeq(Lower(caption),
              LAMBDA c : c \in Range(LowerChars) \cup DigitChars \cup SpaceChars)

\* The rule of the claim: a caption is dropped exactly when it is blank or
\* its form equals the form of the caption kept last before it.
RECURSIVE ClaimDedupe(_, _, _)
ClaimDedupe(caps, kept, cleaned) ==
    IF caps = <<>> THEN cleaned
    ELSE IF Strip(Head(caps)) = <<>> THEN ClaimDedupe(Tail(caps), kept, cleaned)
    ELSE IF kept # <<>> /\ ClaimNormalized(Head(caps)) = ClaimNormalized(kept[1])
    THEN ClaimDedupe(Tail(caps), kept, cleaned)
    ELSE ClaimDedupe(Tail(caps), <<Head(caps)>>, Append(cleaned, Strip(Head(caps))))

\* C4: both dedup loops follow the adjacent rule, so that no two adjacent
\* captions of the output have equal forms, captions with an empty form
\* included.
C4_AdjacentDedup ==
    pc \in {"deduped", "format_deduped"} =>
        /\ cleaned_captions = ClaimDedupe(captions, <<>>, <<>>)
        /\ \A k \in 1..(Len(cleaned_captions) - 1) :
               ClaimNormalized(cleaned_captions[k])
                   # ClaimNormalized(cleaned_captions[k + 1])
        /\ captions = <<TxtHello, TxtHelloNp, TxtGoodbye>> =>
               cleaned_captions = <<TxtHello, TxtGoodbye>>

\* The operation that started spinner k is still between start() and its
\* return: download_captions, generate_summary, or the
\* detect_paragraph_breaks call on top of the stack.
Decorating(k) ==
    \/ spinners[k].op = "download_captions" /\ pc = "extract"
    \/ spinners[k].op = "generate_summary" /\ pc = "summarize"
    \/ /\ spinners[k].op = "detect_paragraph_breaks"
       /\ pc = "detect" /\ stack # <<>>
       /\ Top(stack).state = "generate"
       /\ k = Len(spinners)

\* C5: a spinner that was started is stopped (not running, its thread ended,
\* its line erased) once the operation it decorates has returned or raised.
C5_SpinnerStoppedOnEveryExit ==
    \A k \in DOMAIN spinners :
        ~Decorating(k) =>
            ~spinners[k].running /\ ~spinners[k].alive /\ ~spinners[k].drawn

\* C6: a run whose subtitle content parses to zero captions ends in a
\* failure raised to the caller, and writes no transcript.
C6_NoCaptionsIsFailure ==
    (pc = "done" /\ captions = <<>>) => (Raised /\ written = None)

\* C7: no caption returned by parse is empty or whitespace-only.
C7_NoEmptyCaption ==
    pc = "parsed" => \A k \in DOMAIN captions : Strip(captions[k]) # <<>>

\* The caption of a cue: the texts of its lines joined with one space
CueCaption(cue, keep) ==
    Strip(Join([j \in DOMAIN cue |-> CueLineText(cue[j], keep)], <<" ">>))

\* C8: a WebVTT track of N well-formed cues parses to N captions, the k-th
\* being the space-joined text of the lines of the k-th cue; no timestamp
\* line is among them.
C8_VttCuesInOrder ==
    (pc = "parsed" /\ cues.grammar \in {"vtt", "vtt_tight"}) =>
        /\ Len(captions) = Len(cues.texts)
        /\ \A k \in DOMAIN captions :
               /\ captions[k] = CueCaption(cues.texts[k], keep_labels)
               /\ ~VTT_TIMESTAMP_PATTERN(captions[k])

C8_Witness ==
    /\ pc = "parsed"
    /\ cues.grammar = "vtt_tight"
    /\ Len(cues.texts) >= 2
    /\ Len(captions) = Len(cues.texts)
    /\ \E k \in DOMAIN cues.texts : Len(cues.texts[k]) = 2 /\ captions[k] # <<>>

\* C9: the heuristic run on its own paragraph list returns that list, and
\* run on any one of its paragraphs returns just that paragraph.
C9_HeuristicIdempotent ==
    pc = "resegmented" =>
        /\ resegmented.whole = paragraphs
        /\ Len(resegmented.whole) = Len(paragraphs)
        /\ \A k \in DOMAIN paragraphs : resegmented.singles[k] = <<paragraphs[k]>>
        /\ cleaned_captions = <<TxtHi, TxtThere>> => paragraphs = <<TxtHi, TxtThere>>

C9_Witness ==
    /\ pc = "resegmented"
    /\ cleaned_captions = <<TxtHi, TxtThere>>
    /\ Len(paragraphs) = 2
    /\ resegmented.singles = << <<TxtHi>>, <<TxtThere>> >>

\* The blocks of the document: the title line if a title is given, the four
\* blocks of the summary section if the summary is not empty, the paragraphs
DocumentBlocks ==
    (IF video_title # None /\ video_title # <<>>
     THEN << <<"#", " ">> \o video_title >> ELSE <<>>)
    \o (IF summary # <<>>
        THEN <<TxtSummaryHeader, summary, TxtRule, TxtTranscriptHeader>> ELSE <<>>)
    \o paragraphs

\* C10: format returns the empty string for no paragraphs, and otherwise the
\* blocks of the document separated by one blank line, with no trailing
\* whitespace.
C10_DocumentShape ==
    pc = "rendered" =>
        /\ paragraphs = <<>> => markdown = <<>>
        /\ paragraphs # <<>> =>
               /\ markdown = Join(DocumentBlocks, <<"\n", "\n">>)
               /\ ~IsSpace(markdown[Len(markdown)])

C10_Witness ==
    /\ pc = "rendered"
    /\ video_title = TxtTitle
    /\ summary = TxtSummary
    /\ paragraphs = <<TxtParaA, TxtParaB>>
    /\ Len(markdown) > Len(TxtSummaryHeader) + Len(TxtTranscriptHeader)

\* C11: detect_paragraph_breaks terminates because the recursion through
\* _chunked_paragraph_detection shrinks its input: a nested
\* detect_paragraph_breaks frame holds strictly fewer captions than the
\* detect_paragraph_breaks frame whose chunking called it, and no call has
\* to be cut short by the interpreter's RecursionError.
C11_RecursionShrinks ==
    /\ \A j \in 3..Len(stack) :
           stack[j].fn = "detect" => Len(stack[j].caps) < Len(stack[j - 2].caps)
    /\ Len(stack) < RecursionLimit

\* The j-th run of chunk_size consecutive captions, the last possibly shorter
ClaimChunk(caps, j) ==
    SubSeq(caps, (j - 1) * chunk_size + 1, Min({j * chunk_size, Len(caps)}))

ClaimChunkCount(caps) == (Len(caps) + chunk_size - 1) \div chunk_size

\* The generate calls of the segmentation, in the order they were issued
BreakCallSeq == SelectSeq(calls, LAMBDA c : c.op = "breaks")

\* The paragraphs of a chunked input, chunk by chunk from chunk j on: the
\* result of the next generate call for a chunk the assistant strategy sends
\* (at least MIN_AI_CAPTIONS captions, blob within the limit), which must be
\* the call for that chunk; the heuristic's paragraphs for a chunk it does
\* not send.  ok is FALSE when the calls are not those of the chunks.
RECURSIVE ChunkedResult(_, _, _, _)
ChunkedResult(caps, j, cs, pars) ==
    IF j > ClaimChunkCount(caps) THEN [ok |-> cs = <<>>, pars |-> pars]
    ELSE LET chunk == ClaimChunk(caps, j)
         IN  IF Len(chunk) < MIN_AI_CAPTIONS \/ Len(Join(chunk, <<" ">>)) > MAX_BLOB
             THEN ChunkedResult(caps, j + 1, cs, pars \o basic_paragraph_breaks(chunk))
             ELSE IF cs = <<>> \/ Head(cs).caps # chunk
             THEN [ok |-> FALSE, pars |-> pars]
             ELSE ChunkedResult(caps, j + 1, Tail(cs), pars \o Head(cs).result)

\* The assistant strategy was run on an input whose blob is over the limit
ChunkedRun ==
    /\ Segmented /\ ollama_available
    /\ Len(cleaned_captions) >= MIN_AI_CAPTIONS
    /\ Len(Join(cleaned_captions, <<" ">>)) > MAX_BLOB

\* C12: no generate call of the segmentation receives a blob over the limit;
\* an input whose blob is over the limit is cut into consecutive chunks of
\* chunk_size captions, each chunk is given to the assistant strategy, in
\* order, and the paragraph list returned is the chunks' results in chunk
\* order.
C12_ChunkingBoundsCalls ==
    /\ \A k \in BreakCalls :
           /\ Len(calls[k].text) <= MAX_BLOB
           /\ calls[k].text = Join(calls[k].caps, <<" ">>)
    /\ ChunkedRun =>
           LET expected == ChunkedResult(cleaned_captions, 1, BreakCallSeq, <<>>)
           IN  expected.ok /\ paragraphs = expected.pars

C12_Witness ==
    /\ pc = "done"
    /\ ChunkedRun
    /\ ClaimChunkCount(cleaned_captions) = 2
    /\ Len(BreakCallSeq) = 1
    /\ BreakCallSeq[1].outcome = "returned"
    /\ BreakCallSeq[1].result = ResponseParagraphs(BreakCallSeq[1].response)
    /\ Len(BreakCallSeq[1].result) >= 2
    /\ paragraphs = BreakCallSeq[1].result
                        \o basic_paragraph_breaks(ClaimChunk(cleaned_captions, 2))

\* The Markdown of the other pipeline for the captions and title of the run:
\* format with the captions when the run used process, format with the
\* ai_data of process when the run used the captions.
OtherMarkdown ==
    IF use_ai
    THEN format(captions, video_title, NoData)
    ELSE format(NoData, video_title,
                [paragraphs |-> basic_paragraph_breaks(remove_duplicates(captions)),
                 summary |-> <<>>, title |-> video_title])

\* C13: with the assistant unavailable the Markdown is the same with and
\* without use_ai, and the two code paths agree step by step: the captions
\* process cleaned are those the dedup of _basic_format keeps, and its
\* paragraphs are those of _basic_format.
C13_PipelinesAgree ==
    pc \in {"write", "done"} =>
        /\ markdown = OtherMarkdown
        /\ use_ai =>
               /\ cleaned_captions = basic_format_dedup(captions)
               /\ paragraphs = basic_format(captions)
               /\ summary = <<>>

C13_Witness ==
    /\ pc = "write"
    /\ use_ai /\ ~ollama_available
    /\ video_title = TxtTitle
    /\ captions = <<TxtHello, TxtHelloNp, TxtGoodbye>>
    /\ cleaned_captions = <<TxtHello, TxtGoodbye>>
    /\ Len(paragraphs) = 2
    /\ Len(markdown) > Len(TxtHello) + Len(TxtGoodbye)

=============================================================================
